---------------------------- MODULE Spec2Model ----------------------------
(***************************************************************************)
(* A model of the scholarly-impact pipeline of new.py (process_author and  *)
(* the functions it calls) and of the funding aggregator of scraping.py.   *)
(*                                                                         *)
(* Python strings are sequences of one-character strings, so that          *)
(* startswith, replace, `in' and lower() are computed as Python computes   *)
(* them.  Python's None is the one-element sequence None, which is no      *)
(* character string; a JSON object is a record of the keys it holds.       *)
(* Python's True, False and None as the value of an `oa' variable are the  *)
(* strings "True", "False" and "None".                                     *)
(***************************************************************************)
EXTENDS Integers, Sequences, FiniteSets, TLC

\* ---------- Literals of new.py (a Python string is the sequence of its characters)
\* "https://doi.org/"
DOI_URL_PREFIX == <<"h", "t", "t", "p", "s", ":", "/", "/", "d", "o", "i", ".", "o", "r", "g", "/">>
\* "doi.org"
DOI_ORG == <<"d", "o", "i", ".", "o", "r", "g">>
\* "10.5281"
S_10_5281 == <<"1", "0", ".", "5", "2", "8", "1">>
\* "10.31235"
S_10_31235 == <<"1", "0", ".", "3", "1", "2", "3", "5">>
\* "10.1101"
S_10_1101 == <<"1", "0", ".", "1", "1", "0", "1">>
\* "10.6084"
S_10_6084 == <<"1", "0", ".", "6", "0", "8", "4">>
\* "arxiv"
S_arxiv == <<"a", "r", "x", "i", "v">>
\* "biorxiv"
S_biorxiv == <<"b", "i", "o", "r", "x", "i", "v">>
\* "medrxiv"
S_medrxiv == <<"m", "e", "d", "r", "x", "i", "v">>
\* "ssrn"
S_ssrn == <<"s", "s", "r", "n">>
\* "osf"
S_osf == <<"o", "s", "f">>
\* "researchsquare"
S_researchsquare == <<"r", "e", "s", "e", "a", "r", "c", "h", "s", "q", "u", "a", "r", "e">>
\* "preprints"
S_preprints == <<"p", "r", "e", "p", "r", "i", "n", "t", "s">>
\* "doaj"
S_doaj == <<"d", "o", "a", "j">>
\* "core:"
S_core_colon == <<"c", "o", "r", "e", ":">>
\* "mocked_core"
S_mocked_core == <<"m", "o", "c", "k", "e", "d", "_", "c", "o", "r", "e">>
\* "unpaywall:"
S_unpaywall_colon == <<"u", "n", "p", "a", "y", "w", "a", "l", "l", ":">>
\* "crossref_license:"
S_crossref_license_colon == <<"c", "r", "o", "s", "s", "r", "e", "f", "_", "l", "i", "c", "e", "n", "s", "e", ":">>
\* "preprint:"
S_preprint_colon == <<"p", "r", "e", "p", "r", "i", "n", "t", ":">>
\* "oa_button:"
S_oa_button_colon == <<"o", "a", "_", "b", "u", "t", "t", "o", "n", ":">>
\* "unknown"
S_unknown == <<"u", "n", "k", "n", "o", "w", "n">>
\* "closed"
S_closed == <<"c", "l", "o", "s", "e", "d">>
\* "gold"
S_gold == <<"g", "o", "l", "d">>
\* "green"
S_green == <<"g", "r", "e", "e", "n">>
\* "hybrid"
S_hybrid == <<"h", "y", "b", "r", "i", "d">>
\* "bronze"
S_bronze == <<"b", "r", "o", "n", "z", "e">>
\* "N/A"
S_NA == <<"N", "/", "A">>

\* ---------- Sample values of the external data (publication listing and API bodies)
\* "10.1000/x"
DoiBare == <<"1", "0", ".", "1", "0", "0", "0", "/", "x">>
\* "10.5281/z"
DoiCore == <<"1", "0", ".", "5", "2", "8", "1", "/", "z">>
\* "http://dx.doi.org/10.1000/x"
DoiDx == <<"h", "t", "t", "p", ":", "/", "/", "d", "x", ".", "d", "o", "i", ".", "o", "r", "g", "/", "1", "0", ".", "1", "0", "0", "0", "/", "x">>
\* "https://example.org/p"
UrlOther == <<"h", "t", "t", "p", "s", ":", "/", "/", "e", "x", "a", "m", "p", "l", "e", ".", "o", "r", "g", "/", "p">>
\* "arXiv"
VenueArxiv == <<"a", "r", "X", "i", "v">>
\* "OSF Preprints"
VenueOsf == <<"O", "S", "F", " ", "P", "r", "e", "p", "r", "i", "n", "t", "s">>
\* "Nature"
VenueNature == <<"N", "a", "t", "u", "r", "e">>
\* "123"
Pmid1 == <<"1", "2", "3">>
\* "http://cc.org/by"
LicenseUrl == <<"h", "t", "t", "p", ":", "/", "/", "c", "c", ".", "o", "r", "g", "/", "b", "y">>
\* "http://oa.org/f"
OaLink == <<"h", "t", "t", "p", ":", "/", "/", "o", "a", ".", "o", "r", "g", "/", "f">>

\* ---------- Python values
\* Python's None, where a string is expected (a JSON null as well).
None == <<"<None>">>
\* bool(v) of an optional string: None and "" are falsy.
Truthy(v) == v # None /\ v # <<>>
\* A JSON object is a record of the keys it holds; {} is the empty function.
EmptyObj == <<>>
\* d.get(k, default)
DictGet(d, k, default) == IF k \in DOMAIN d THEN d[k] ELSE default
\* An f-string's rendering of an optional string: None prints as "None".
Fmt(v) == IF v = None THEN <<"N", "o", "n", "e">> ELSE v

\* ---------- str methods
\* s.startswith(p)
StartsWith(s, p) == Len(s) >= Len(p) /\ SubSeq(s, 1, Len(p)) = p
\* p in s
Contains(s, p) == \E i \in 1..(Len(s) + 1 - Len(p)) : SubSeq(s, i, i + Len(p) - 1) = p
\* s.replace(p, ""): every non-overlapping occurrence of p, left to right.
RECURSIVE Replace(_, _)
Replace(s, p) ==
    IF s = <<>> THEN <<>>
    ELSE IF StartsWith(s, p) THEN Replace(SubSeq(s, Len(p) + 1, Len(s)), p)
    ELSE <<Head(s)>> \o Replace(Tail(s), p)
UpperLetters == <<"A", "B", "C", "D", "E", "F", "G", "H", "I", "J", "K", "L", "M",
                  "N", "O", "P", "Q", "R", "S", "T", "U", "V", "W", "X", "Y", "Z">>
LowerLetters == <<"a", "b", "c", "d", "e", "f", "g", "h", "i", "j", "k", "l", "m",
                  "n", "o", "p", "q", "r", "s", "t", "u", "v", "w", "x", "y", "z">>
LowerChar(c) ==
    IF \E i \in 1..26 : UpperLetters[i] = c
    THEN LowerLetters[CHOOSE i \in 1..26 : UpperLetters[i] = c]
    ELSE c
\* s.lower()
Lower(s) == [i \in 1..Len(s) |-> LowerChar(s[i])]

\* ---------- DOI + PMID helpers
clean_doi(doi) ==
    IF ~Truthy(doi) THEN None
    ELSE IF StartsWith(doi, DOI_URL_PREFIX) THEN Replace(doi, DOI_URL_PREFIX)
    ELSE IF ~Contains(doi, DOI_ORG) THEN None
    ELSE doi

\* What an HTTP call ends with: [kind |-> "neterr"] when requests raises, or
\* [kind |-> "http", status, json, body]: json says whether the body parses
\* as a JSON object, which body then is.
Ok200(r) == r.kind = "http" /\ r.status = 200
NoIds == [doi |-> None, pmid |-> None]

\* (doi, pmid) of query_doi_from_openalex, from the response r of its call.
\* A null "doi" of the first work makes .replace raise, and the except
\* clause falls through to (None, None), as an unparsable body does.
query_doi_from_openalex(r) ==
    IF Ok200(r) /\ r.json /\ DictGet(r.body, "results", <<>>) # <<>>
    THEN LET work == DictGet(r.body, "results", <<>>)[1]
         IN  IF DictGet(work, "doi", <<>>) = None
             THEN NoIds
             ELSE [doi  |-> Replace(DictGet(work, "doi", <<>>), DOI_URL_PREFIX),
                   pmid |-> DictGet(DictGet(work, "ids", EmptyObj), "pmid", None)]
    ELSE NoIds

\* (doi, pmid) of query_doi_from_crossref; a body without "message" raises
\* KeyError, caught.
query_doi_from_crossref(r) ==
    IF Ok200(r) /\ r.json /\ "message" \in DOMAIN r.body
       /\ DictGet(r.body.message, "items", <<>>) # <<>>
    THEN [doi  |-> DictGet(DictGet(r.body.message, "items", <<>>)[1], "DOI", None),
          pmid |-> None]
    ELSE NoIds

\* get_pmid_from_pubmed: the status code is not looked at.
get_pmid_from_pubmed(r) ==
    IF r.kind = "http" /\ r.json
    THEN LET ids == DictGet(DictGet(r.body, "esearchresult", EmptyObj), "idlist", <<>>)
         IN  IF ids # <<>> THEN ids[1] ELSE None
    ELSE None

\* ---------- Altmetric
\* The summary of a response body; "altmetric_id" is carried along and never
\* read, and is left out.
extract_altmetric_data(data) ==
    [score  |-> DictGet(data, "score", 0),
     counts |-> [Twitter   |-> DictGet(data, "cited_by_tweeters_count", 0),
                 Reddit    |-> DictGet(data, "cited_by_rdts_count", 0),
                 Blogs     |-> DictGet(data, "cited_by_feeds_count", 0),
                 News      |-> DictGet(data, "cited_by_msm_count", 0),
                 Facebook  |-> DictGet(data, "cited_by_fbwalls_count", 0),
                 Wikipedia |-> DictGet(data, "cited_by_wikipedia_count", 0),
                 PolicyDocs |-> DictGet(data, "cited_by_policy_count", 0)]]
\* The absent summary (Python's None).
NoSummary == [absent |-> TRUE]
\* has_media_mentions with the social-post and forum counters counted too.
has_media_mentions_all_counters(altmetric) ==
    IF altmetric = NoSummary THEN FALSE
    ELSE \E k \in {"News", "Blogs", "PolicyDocs", "Facebook", "Wikipedia", "Twitter",
                   "Reddit"} : DictGet(altmetric.counts, k, 0) > 0
has_media_mentions(altmetric) ==
    IF altmetric = NoSummary THEN FALSE
    ELSE \E k \in {"News", "Blogs", "PolicyDocs", "Facebook", "Wikipedia"} :
            DictGet(altmetric.counts, k, 0) > 0

\* ---------- Open-access stages: each gives (oa, source)
Abstain == [oa |-> "None", source |-> None]
\* is_journal_in_doaj that asks for a hit: total > 0.
is_journal_in_doaj_hits(r) ==
    IF Ok200(r) /\ r.json /\ "total" \in DOMAIN r.body /\ r.body.total > 0
    THEN [oa |-> "True", source |-> S_doaj]
    ELSE Abstain
is_journal_in_doaj(r) ==
    IF Ok200(r) /\ r.json /\ "total" \in DOMAIN r.body
    THEN [oa |-> "True", source |-> S_doaj]
    ELSE Abstain
core_indexed_prefixes == <<S_10_5281, S_10_31235, S_10_1101, S_10_6084>>
is_in_core_repository(doi) ==
    IF ~Truthy(doi) THEN Abstain
    ELSE IF \E i \in 1..Len(core_indexed_prefixes) : StartsWith(doi, core_indexed_prefixes[i])
    THEN [oa |-> "True", source |-> S_mocked_core]
    ELSE Abstain
get_open_access_status_unpaywall(r) ==
    IF Ok200(r) /\ r.json
    THEN [oa     |-> DictGet(r.body, "is_oa", "False"),
          source |-> DictGet(r.body, "oa_status", S_unknown)]
    ELSE Abstain
get_open_access_status_crossref_license(r) ==
    IF Ok200(r) /\ r.json /\ "message" \in DOMAIN r.body
       /\ DictGet(r.body.message, "license", <<>>) # <<>>
    THEN [oa     |-> "True",
          source |-> DictGet(DictGet(r.body.message, "license", <<>>)[1], "URL", <<>>)]
    ELSE Abstain
preprint_sources ==
    <<S_arxiv, S_biorxiv, S_medrxiv, S_ssrn, S_osf, S_researchsquare, S_preprints>>
\* The indices of the sources that occur in venue.lower().
PreprintMatches(venue) ==
    {i \in 1..Len(preprint_sources) : Contains(Lower(venue), preprint_sources[i])}
is_preprint_venue(venue, doi) ==
    IF Truthy(doi) THEN [oa |-> "False", source |-> None]
    ELSE IF Truthy(venue) /\ PreprintMatches(venue) # {}
    THEN [oa     |-> "True",
          source |-> preprint_sources[CHOOSE i \in PreprintMatches(venue) :
                                        \A j \in PreprintMatches(venue) : i <= j]]
    ELSE [oa |-> "False", source |-> None]
get_open_access_from_oa_button(r) ==
    IF Ok200(r) /\ r.json
       /\ Truthy(DictGet(DictGet(r.body, "data", EmptyObj), "url", None))
    THEN [oa |-> "True", source |-> r.body.data.url]
    ELSE Abstain

\* ---------- Classification
is_preprint(venue, doi) ==
    IF Truthy(doi) THEN FALSE
    ELSE IF Truthy(venue) THEN PreprintMatches(venue) # {}
    ELSE FALSE
\* classify_publication_type without the test of the verdict.
classify_publication_type_no_flag(d, v, flag) ==
    IF is_preprint(v, d) THEN "Preprint"
    ELSE IF Truthy(d) THEN "Open Access"
    ELSE "Unknown"
classify_publication_type(doi, venue, oa_flag) ==
    IF is_preprint(venue, doi) THEN "Preprint"
    ELSE IF Truthy(doi) /\ oa_flag = "True" THEN "Open Access"
    ELSE IF Truthy(doi) THEN "Published"
    ELSE "Unknown"
refine_open_access_label(is_oa, oa_status) ==
    IF is_oa # "True" \/ oa_status = S_closed THEN "Closed"
    ELSE IF oa_status = S_gold THEN "Gold OA"
    ELSE IF oa_status = S_green THEN "Green OA"
    ELSE IF oa_status = S_hybrid THEN "Hybrid OA"
    ELSE IF oa_status = S_bronze THEN "Bronze OA"
    ELSE "Unknown OA"

\* ---------- Bounds of the model
\* The number of works process_author is run over.
MaxPapers == 2

\* ---------- The inputs: the works of the publication listing
TitleA == <<"M", "a", "l", "a", "r", "i", "a">>
Titles == {<<>>, TitleA}
Venues == {<<>>, S_NA, VenueArxiv, VenueOsf, VenueNature}
\* "https://doi.org/10.1000/x?u=https://doi.org/y"
DoiNested == DOI_URL_PREFIX \o DoiBare \o <<"?", "u", "=">> \o DOI_URL_PREFIX \o <<"y">>
RawDois == {<<>>, DOI_URL_PREFIX, DOI_URL_PREFIX \o DoiBare, DOI_URL_PREFIX \o DoiCore,
            DoiNested, DoiDx, UrlOther}

\* ---------- The inputs: what the external services answer
NetErr == [kind |-> "neterr"]
Http(status, json, body) == [kind |-> "http", status |-> status, json |-> json, body |-> body]
\* The answers every service can give: no answer, an error status, a body
\* that is no JSON object, an object without any expected key.
Failures == {NetErr, Http(500, TRUE, EmptyObj), Http(200, FALSE, EmptyObj)}
OpenAlexResponses ==
    Failures \cup
    { Http(200, TRUE, EmptyObj),
      Http(200, TRUE, [results |-> <<>>]),
      Http(200, TRUE, [results |-> <<EmptyObj>>]),
      Http(200, TRUE, [results |-> <<[doi |-> None]>>]),
      Http(200, TRUE, [results |-> <<[doi |-> DOI_URL_PREFIX \o DoiBare]>>]),
      Http(200, TRUE, [results |-> <<[ids |-> [pmid |-> Pmid1]]>>]),
      Http(200, TRUE, [results |-> <<[doi |-> DOI_URL_PREFIX \o DoiBare,
                                      ids |-> [pmid |-> Pmid1]]>>]) }
CrossrefResponses ==
    Failures \cup
    { Http(200, TRUE, EmptyObj),
      Http(200, TRUE, [message |-> EmptyObj]),
      Http(200, TRUE, [message |-> [items |-> <<EmptyObj>>]]),
      Http(200, TRUE, [message |-> [items |-> <<[DOI |-> DoiBare]>>]]),
      Http(200, TRUE, [message |-> [items |-> <<[DOI |-> DoiCore]>>]]) }
PubMedResponses ==
    Failures \cup
    { Http(200, TRUE, EmptyObj),
      Http(200, TRUE, [esearchresult |-> [idlist |-> <<>>]]),
      Http(200, TRUE, [esearchresult |-> [idlist |-> <<Pmid1>>]]) }
AltmetricResponses ==
    Failures \cup
    { Http(404, FALSE, EmptyObj),
      Http(200, TRUE, EmptyObj),
      Http(200, TRUE, [score |-> 7, cited_by_policy_count |-> 1,
                       cited_by_tweeters_count |-> 5, cited_by_rdts_count |-> 3]),
      Http(200, TRUE, [score |-> 2, cited_by_tweeters_count |-> 5]) }
DoajResponses ==
    Failures \cup
    { Http(200, TRUE, EmptyObj),
      Http(200, TRUE, [total |-> 0]),
      Http(200, TRUE, [total |-> 3]) }
UnpaywallResponses ==
    Failures \cup
    { Http(404, TRUE, EmptyObj),
      Http(200, TRUE, EmptyObj),
      Http(200, TRUE, [is_oa |-> "None", oa_status |-> None]),
      Http(200, TRUE, [is_oa |-> "True"]),
      Http(200, TRUE, [is_oa |-> "True", oa_status |-> S_gold]),
      Http(200, TRUE, [is_oa |-> "True", oa_status |-> S_green]),
      Http(200, TRUE, [is_oa |-> "False", oa_status |-> S_closed]) }
CrossrefLicenseResponses ==
    Failures \cup
    { Http(200, TRUE, EmptyObj),
      Http(200, TRUE, [message |-> EmptyObj]),
      Http(200, TRUE, [message |-> [license |-> <<EmptyObj>>]]),
      Http(200, TRUE, [message |-> [license |-> <<[URL |-> LicenseUrl]>>]]) }
OaButtonResponses ==
    Failures \cup
    { Http(200, TRUE, EmptyObj),
      Http(200, TRUE, [data |-> EmptyObj]),
      Http(200, TRUE, [data |-> [url |-> None]]),
      Http(200, TRUE, [data |-> [url |-> OaLink]]) }

\* The answers the attention and open-access services give in the runs of
\* process_author as a whole: a failure and a success of each.
AltmetricFew == {NetErr, Http(404, FALSE, EmptyObj),
                 Http(200, TRUE, [score |-> 7, cited_by_policy_count |-> 1])}
DoajFew == {NetErr, Http(200, TRUE, [total |-> 0])}
UnpaywallFew == {NetErr, Http(200, TRUE, [is_oa |-> "True", oa_status |-> S_gold])}
CrossrefLicenseFew == {NetErr, Http(200, TRUE, [message |-> [license |-> <<[URL |-> LicenseUrl]>>]])}
OaButtonFew == {NetErr, Http(200, TRUE, [data |-> [url |-> OaLink]])}

\* ---------- The state of process_author
VARIABLES
    pc,                     \* where process_author is in its loop body
    n,                      \* the works taken from the list so far
    title, venue, raw_doi,  \* the fields of the current work
    doi, pmid,              \* the identifiers resolved for it
    calls,                  \* the calls made for the current work, in order
    altStatus,              \* how the Altmetric DOI query ended (StatusOf)
    altmetric,              \* the attention summary, or NoSummary
    altmetric_404_titles,   \* the miss log
    stages,                 \* per cascade stage: the answer it got and its (oa, source)
    oa_flag, oa_status_raw, \* what get_combined_open_access_status returned
    oa_type,                \* the label refine_open_access_label gave
    record,                 \* the output record appended last, in full
    results                 \* the output records, each kept as its identifier fields

\* ---------- The state of the funding aggregator (scraping.py)
VARIABLES
    fpc,                    \* where the aggregator's main block is
    all_results,            \* nih_results + grants_gov_results + idrc_results
    unique_list             \* the combined output

paperVars == <<pc, n, title, venue, raw_doi, doi, pmid, calls, altStatus, altmetric,
               altmetric_404_titles, stages, oa_flag, oa_status_raw, oa_type, record,
               results>>
\* ---------- The state of fetch_grants_concurrent and of its workers
VARIABLES
    gpc,                    \* where fetch_grants_concurrent is
    page_size,              \* its argument
    total_pages,            \* the pages it submits, one worker for each
    seen_titles,            \* the set shared by the workers
    wpc,                    \* per worker: where its fetch_grants_page is
    witems,                 \* per worker: the items of its page still to visit
    wrecords,               \* per worker: the records list it builds
    grants_results          \* all_results of fetch_grants_concurrent

\* ---------- The state of fetch_nih_by_year
VARIABLES
    nih_pc,                 \* where fetch_nih_by_year is
    year, batch_size,       \* its arguments
    offset,                 \* the offset of the next request
    records,                \* the records list it builds
    nih_requests,           \* the offsets it has requested, in order
    nih_pages,              \* the result lists of the pages it was served
    nih_data                \* the projects the API holds for the search, in its order

grantVars == <<gpc, page_size, total_pages, seen_titles, wpc, witems, wrecords,
               grants_results>>
nihVars == <<nih_pc, year, batch_size, offset, records, nih_requests, nih_pages,
             nih_data>>
fundVars == <<fpc, all_results, unique_list, grantVars, nihVars>>
vars == <<paperVars, fundVars>>

\* fetch_grants_concurrent is not running.
GrantsIdle ==
    /\ gpc = "idle"
    /\ page_size = 1
    /\ total_pages = 0
    /\ seen_titles = {}
    /\ wpc = <<>> /\ witems = <<>> /\ wrecords = <<>>
    /\ grants_results = <<>>
\* fetch_nih_by_year is not running.
NihIdle ==
    /\ nih_pc = "idle"
    /\ year = "2015" /\ batch_size = 1
    /\ offset = 0
    /\ records = <<>>
    /\ nih_requests = <<>> /\ nih_pages = <<>>
    /\ nih_data = <<>>
\* The aggregator is not running.
FundIdle ==
    /\ fpc = "idle" /\ all_results = <<>> /\ unique_list = <<>>
    /\ GrantsIdle
    /\ NihIdle

NoCall == [kind |-> "none"]
NotCalled == [called |-> FALSE]

\* process_author is called with the list of works.
Init ==
    /\ pc = "loop"
    /\ n = 0
    /\ title = <<>> /\ venue = <<>> /\ raw_doi = <<>>
    /\ doi = None /\ pmid = None
    /\ calls = <<>>
    /\ altStatus = NoCall
    /\ altmetric = NoSummary
    /\ altmetric_404_titles = <<>>
    /\ stages = [k \in 1..6 |-> NotCalled]
    /\ oa_flag = "None" /\ oa_status_raw = None /\ oa_type = "None"
    /\ record = EmptyObj
    /\ results = <<>>
    /\ FundIdle

\* ---------- process_author: one work at a time
\* `if not doi' before the DOI lookups (line 368).
NeedsDoiLookup(d) == ~Truthy(d)
\* `if not pmid' before the PubMed lookup (line 372).
NeedsPmidLookup(p) == ~Truthy(p)
\* The test with its second `not' dropped: `if not doi and pmid'.
UnresolvableNotDropped(d, p) == ~Truthy(d) /\ Truthy(p)
\* `if not doi and not pmid' (line 375): the work is skipped.
Unresolvable(d, p) == ~Truthy(d) /\ ~Truthy(p)

\* The next work of the list is read and its DOI field cleaned.
TakeWork(SomeTitles, SomeVenues) ==
    /\ pc \in {"loop", "skipped", "appended"}
    /\ n < MaxPapers
    /\ n' = n + 1
    /\ \E t \in SomeTitles, v \in SomeVenues, d \in RawDois :
          /\ title' = t /\ venue' = v /\ raw_doi' = d
          /\ doi' = clean_doi(d)
          /\ pc' = IF NeedsDoiLookup(clean_doi(d)) THEN "openalex" ELSE "pubmed"
    /\ pmid' = None
    /\ calls' = <<>>
    /\ altStatus' = NoCall
    /\ altmetric' = NoSummary
    /\ stages' = [k \in 1..6 |-> NotCalled]
    /\ oa_flag' = "None" /\ oa_status_raw' = None /\ oa_type' = "None"
    /\ record' = EmptyObj
    /\ UNCHANGED <<altmetric_404_titles, results>>
    /\ UNCHANGED fundVars

QueryOpenAlex ==
    /\ pc = "openalex"
    /\ \E r \in OpenAlexResponses :
          LET ids == query_doi_from_openalex(r)
          IN  /\ doi' = ids.doi
              /\ pmid' = ids.pmid
              /\ pc' = IF NeedsDoiLookup(ids.doi) THEN "crossref"
                       ELSE IF NeedsPmidLookup(ids.pmid) THEN "pubmed"
                       ELSE "resolved"
    /\ calls' = Append(calls, "openalex")
    /\ UNCHANGED <<n, title, venue, raw_doi, altStatus, altmetric, altmetric_404_titles,
                   stages, oa_flag, oa_status_raw, oa_type, record, results>>
    /\ UNCHANGED fundVars

QueryCrossref ==
    /\ pc = "crossref"
    /\ \E r \in CrossrefResponses : doi' = query_doi_from_crossref(r).doi
    /\ pc' = IF NeedsPmidLookup(pmid) THEN "pubmed" ELSE "resolved"
    /\ calls' = Append(calls, "crossref")
    /\ UNCHANGED <<n, title, venue, raw_doi, pmid, altStatus, altmetric,
                   altmetric_404_titles, stages, oa_flag, oa_status_raw, oa_type, record, results>>
    /\ UNCHANGED fundVars

QueryPubMed ==
    /\ pc = "pubmed"
    /\ \E r \in PubMedResponses : pmid' = get_pmid_from_pubmed(r)
    /\ pc' = "resolved"
    /\ calls' = Append(calls, "pubmed")
    /\ UNCHANGED <<n, title, venue, raw_doi, doi, altStatus, altmetric,
                   altmetric_404_titles, stages, oa_flag, oa_status_raw, oa_type, record, results>>
    /\ UNCHANGED fundVars

\* Lines 375-377: a work with neither identifier is skipped.
CheckIdentifiers ==
    /\ pc = "resolved"
    /\ pc' = IF Unresolvable(doi, pmid) THEN "skipped" ELSE "altmetric"
    /\ UNCHANGED <<n, title, venue, raw_doi, doi, pmid, calls, altStatus, altmetric,
                   altmetric_404_titles, stages, oa_flag, oa_status_raw, oa_type, record, results>>
    /\ UNCHANGED fundVars

\* ---------- get_altmetric_summary
\* LogsMiss on every status other than 200.
LogsMissNot200(r, t) == r.kind = "http" /\ r.status # 200 /\ Truthy(t)
\* The 404 branch appends the title: `if title and altmetric_404_log is not None';
\* process_author always passes its list.
LogsMiss(r, t) == r.kind = "http" /\ r.status = 404 /\ Truthy(t)
\* `get_altmetric_by_pmid(pmid) if pmid else None', in the 404 branch.
RetriesByPmid(r, p) == r.kind = "http" /\ r.status = 404 /\ Truthy(p)
\* What a query returns when it is the last one: the summary of a 200 with a
\* JSON body, else None.
\* How a call ended: the response without its body.
StatusOf(r) ==
    IF r.kind = "http" THEN [kind |-> "http", status |-> r.status, json |-> r.json]
    ELSE [kind |-> r.kind]
SummaryOf(r) == IF Ok200(r) /\ r.json THEN extract_altmetric_data(r.body) ELSE NoSummary

AltmetricByDoi(Responses) ==
    /\ pc = "altmetric"
    /\ \E r \in Responses :
          /\ altStatus' = StatusOf(r)
          /\ altmetric_404_titles' =
                IF LogsMiss(r, title) THEN Append(altmetric_404_titles, title)
                ELSE altmetric_404_titles
          /\ IF RetriesByPmid(r, pmid)
             THEN pc' = "altmetric_pmid" /\ altmetric' = altmetric
             ELSE pc' = "doaj" /\ altmetric' = SummaryOf(r)
    /\ calls' = Append(calls, "altmetric_doi")
    /\ UNCHANGED <<n, title, venue, raw_doi, doi, pmid, stages, oa_flag, oa_status_raw,
                   oa_type, record, results>>
    /\ UNCHANGED fundVars

\* get_altmetric_by_pmid
AltmetricByPmid(Responses) ==
    /\ pc = "altmetric_pmid"
    /\ \E r \in Responses : altmetric' = SummaryOf(r)
    /\ pc' = "doaj"
    /\ calls' = Append(calls, "altmetric_pmid")
    /\ UNCHANGED <<n, title, venue, raw_doi, doi, pmid, altStatus, altmetric_404_titles,
                   stages, oa_flag, oa_status_raw, oa_type, record, results>>
    /\ UNCHANGED fundVars

\* ---------- get_combined_open_access_status, stage by stage
StagePc == <<"doaj", "core", "unpaywall", "crossref_license", "preprint_venue", "oa_button">>
\* Returns with `if oa' at every stage: a closed verdict is passed over.
ReturnsIfTruthy(k, out) == out.oa = "True"
\* The test after stage k: `if oa is not None', and `if oa' after the preprint stage.
Returns(k, out) == IF k = 5 THEN out.oa = "True" ELSE out.oa # "None"
\* The provenance string returned with stage k's verdict.
Provenance(k, source) ==
    CASE k = 1 -> S_doaj
      [] k = 2 -> S_core_colon \o Fmt(source)
      [] k = 3 -> S_unpaywall_colon \o Fmt(source)
      [] k = 4 -> S_crossref_license_colon \o Fmt(source)
      [] k = 5 -> S_preprint_colon \o Fmt(source)
      [] k = 6 -> S_oa_button_colon \o Fmt(source)
\* The function returns (flag, status); process_author labels it (lines 383-384).
CascadeReturn(flag, status) ==
    /\ oa_flag' = flag
    /\ oa_status_raw' = status
    /\ oa_type' = refine_open_access_label(flag, status)
    /\ pc' = "emit"
\* Stage k got the answer r and gave out: return, or go on to the next stage, or after the
\* last one return (False, "unknown").
CascadeStep(k, r, out) ==
    /\ stages' = [stages EXCEPT ![k] = [called |-> TRUE, resp |-> r, out |-> out]]
    /\ calls' = Append(calls, StagePc[k])
    /\ IF Returns(k, out) THEN CascadeReturn(out.oa, Provenance(k, out.source))
       ELSE IF k < 6
       THEN pc' = StagePc[k + 1] /\ UNCHANGED <<oa_flag, oa_status_raw, oa_type>>
       ELSE CascadeReturn("False", S_unknown)
    /\ UNCHANGED <<n, title, venue, raw_doi, doi, pmid, altStatus, altmetric,
                   altmetric_404_titles, record, results>>
    /\ UNCHANGED fundVars

StageDoaj(Responses) ==
    /\ pc = "doaj"
    /\ \E r \in Responses : CascadeStep(1, r, is_journal_in_doaj(r))
StageCore ==
    /\ pc = "core"
    /\ CascadeStep(2, NoCall, is_in_core_repository(doi))
StageUnpaywall(Responses) ==
    /\ pc = "unpaywall"
    /\ \E r \in Responses :
          CascadeStep(3, r, get_open_access_status_unpaywall(r))
StageCrossrefLicense(Responses) ==
    /\ pc = "crossref_license"
    /\ \E r \in Responses :
          CascadeStep(4, r, get_open_access_status_crossref_license(r))
StagePreprintVenue ==
    /\ pc = "preprint_venue"
    /\ CascadeStep(5, NoCall, is_preprint_venue(venue, doi))
StageOaButton(Responses) ==
    /\ pc = "oa_button"
    /\ \E r \in Responses :
          CascadeStep(6, r, get_open_access_from_oa_button(r))

\* ---------- The output record (lines 387-411); the fields copied from the
\* work (author, year, citations, authors) and the two topic tags are left out.
OutputRecord ==
    [Title           |-> title,
     DOI             |-> IF Truthy(doi) THEN DOI_URL_PREFIX \o doi ELSE S_NA,
     PMID            |-> pmid,
     Journal         |-> venue,
     AltmetricScore  |-> IF altmetric = NoSummary THEN 0 ELSE altmetric.score,
     Mentions        |-> IF altmetric = NoSummary THEN EmptyObj ELSE altmetric.counts,
     MediaMentioned  |-> has_media_mentions(altmetric),
     OpenAccess      |-> oa_flag,
     OAStatus        |-> oa_status_raw,
     Preprint        |-> is_preprint(venue, doi),
     PublicationType |-> classify_publication_type(doi, venue, oa_flag)]
\* What results keeps of a record.
Identifiers(rec) == [DOI |-> rec.DOI, PMID |-> rec.PMID]

Emit ==
    /\ pc = "emit"
    /\ record' = OutputRecord
    /\ results' = Append(results, Identifiers(OutputRecord))
    /\ pc' = "appended"
    /\ UNCHANGED <<n, title, venue, raw_doi, doi, pmid, calls, altStatus, altmetric,
                   altmetric_404_titles, stages, oa_flag, oa_status_raw, oa_type>>
    /\ UNCHANGED fundVars

\* The list is exhausted: the files are written.
Finish ==
    /\ pc \in {"loop", "skipped", "appended"}
    /\ n = MaxPapers
    /\ pc' = "done"
    /\ UNCHANGED <<n, title, venue, raw_doi, doi, pmid, calls, altStatus, altmetric,
                   altmetric_404_titles, stages, oa_flag, oa_status_raw, oa_type,
                   record, results>>
    /\ UNCHANGED fundVars

\* process_author over a list of at most MaxPapers works.
Next ==
    \/ TakeWork({TitleA}, {VenueNature, VenueArxiv})
    \/ QueryOpenAlex
    \/ QueryCrossref
    \/ QueryPubMed
    \/ CheckIdentifiers
    \/ AltmetricByDoi(AltmetricFew)
    \/ AltmetricByPmid(AltmetricFew)
    \/ StageDoaj(DoajFew)
    \/ StageCore
    \/ StageUnpaywall(UnpaywallFew)
    \/ StageCrossrefLicense(CrossrefLicenseFew)
    \/ StagePreprintVenue
    \/ StageOaButton(OaButtonFew)
    \/ Emit
    \/ Finish

Spec == Init /\ [][Next]_vars

\* ---------- One call of get_altmetric_summary, with every answer
\* The identifiers process_author can have resolved when it makes the call.
ResolvedDois == {None, DoiBare, DoiCore, DoiDx}
ResolvedPmids == {None, Pmid1}
InitAltmetric ==
    /\ pc = "altmetric"
    /\ n = 1
    /\ title \in Titles /\ venue = VenueNature /\ raw_doi = <<>>
    /\ doi \in ResolvedDois /\ pmid \in ResolvedPmids
    /\ ~Unresolvable(doi, pmid)
    /\ calls = <<>>
    /\ altStatus = NoCall
    /\ altmetric = NoSummary
    /\ altmetric_404_titles \in {<<>>, <<TitleA>>}
    /\ stages = [k \in 1..6 |-> NotCalled]
    /\ oa_flag = "None" /\ oa_status_raw = None /\ oa_type = "None"
    /\ record = EmptyObj
    /\ results = <<>>
    /\ FundIdle
NextAltmetric ==
    \/ AltmetricByDoi(AltmetricResponses)
    \/ AltmetricByPmid(AltmetricResponses)
SpecAltmetric == InitAltmetric /\ [][NextAltmetric]_vars

\* ---------- One call of get_combined_open_access_status and the record
\* made of its result, with every answer of the four services
InitCascade ==
    /\ pc = "doaj"
    /\ n = 1
    /\ title = TitleA /\ venue \in Venues /\ raw_doi = <<>>
    /\ doi \in ResolvedDois /\ pmid \in ResolvedPmids
    /\ ~Unresolvable(doi, pmid)
    /\ calls = <<>>
    /\ altStatus = NoCall
    /\ altmetric = NoSummary
    /\ altmetric_404_titles = <<>>
    /\ stages = [k \in 1..6 |-> NotCalled]
    /\ oa_flag = "None" /\ oa_status_raw = None /\ oa_type = "None"
    /\ record = EmptyObj
    /\ results = <<>>
    /\ FundIdle
NextCascade ==
    \/ StageDoaj(DoajResponses)
    \/ StageCore
    \/ StageUnpaywall(UnpaywallResponses)
    \/ StageCrossrefLicense(CrossrefLicenseResponses)
    \/ StagePreprintVenue
    \/ StageOaButton(OaButtonResponses)
    \/ Emit
SpecCascade == InitCascade /\ [][NextCascade]_vars

\* ---------- One work from the attention query to its record, with every
\* combination of the seven counters in the body of the attention service
CounterBodies ==
    [cited_by_tweeters_count : {0, 5}, cited_by_rdts_count : {0, 3},
     cited_by_feeds_count : {0, 1}, cited_by_msm_count : {0, 2},
     cited_by_fbwalls_count : {0, 1}, cited_by_wikipedia_count : {0, 1},
     cited_by_policy_count : {0, 1}]
MediaResponses ==
    {NetErr, Http(404, FALSE, EmptyObj), Http(200, TRUE, EmptyObj)}
        \cup {Http(200, TRUE, b) : b \in CounterBodies}
InitMedia ==
    /\ pc = "altmetric"
    /\ n = 1
    /\ title = TitleA /\ venue = VenueNature /\ raw_doi = <<>>
    /\ doi = DoiBare /\ pmid \in ResolvedPmids
    /\ calls = <<>>
    /\ altStatus = NoCall
    /\ altmetric = NoSummary
    /\ altmetric_404_titles = <<>>
    /\ stages = [k \in 1..6 |-> NotCalled]
    /\ oa_flag = "None" /\ oa_status_raw = None /\ oa_type = "None"
    /\ record = EmptyObj
    /\ results = <<>>
    /\ FundIdle
NextMedia ==
    \/ AltmetricByDoi(MediaResponses)
    \/ AltmetricByPmid(MediaResponses)
    \/ StageDoaj({NetErr})
    \/ StageCore
    \/ StageUnpaywall({NetErr})
    \/ StageCrossrefLicense({NetErr})
    \/ StagePreprintVenue
    \/ StageOaButton({NetErr})
    \/ Emit
SpecMedia == InitMedia /\ [][NextMedia]_vars


\* ---------- scraping.py: the combined output of the main block
\* The number of records each of the three sources contributes at most.
MaxFund == 2

\* The records of fetch_nih_by_year, fetch_grants_concurrent and
\* fetch_idrc_opportunities, as far as the combination reads them, with the
\* year standing for the fields it copies; the titles are "AI", "ai" and "ML".
NihRecords == [Title : {<<"A", "I">>, <<"a", "i">>}, Source : {"NIH RePORTER"},
               Year : {"2015", "2016"}]
GrantsRecords == [Title : {<<"A", "I">>}, Source : {"Grants.gov (NSF)"}, Year : {"2025"}]
IdrcRecords == [Title : {<<"A", "I">>, <<"M", "L">>}, Source : {"IDRC - CRDI"},
                Year : {"2025"}]
\* The lists of at most m elements of S.
ListsUpTo(S, m) == UNION {[1..k -> S] : k \in 0..m}

\* DictPut that leaves a key already held alone (first write wins).
DictPutKeepFirst(d, k, v) ==
    IF \E i \in 1..Len(d) : d[i].key = k
    THEN d
    ELSE Append(d, [key |-> k, value |-> v])
\* A dict is the sequence of its (key, value) pairs in insertion order.
\* d[k] = v: a key already held keeps its place and takes the new value.
DictPut(d, k, v) ==
    IF \E i \in 1..Len(d) : d[i].key = k
    THEN [i \in 1..Len(d) |-> IF d[i].key = k THEN [key |-> k, value |-> v] ELSE d[i]]
    ELSE Append(d, [key |-> k, value |-> v])
\* (item['Title'].lower(), item['Source'])
ItemKey(item) == <<Lower(item.Title), item.Source>>
\* { key(item): item for item in items }, on top of d.
RECURSIVE DictOfItems(_, _)
DictOfItems(items, d) ==
    IF items = <<>> THEN d
    ELSE DictOfItems(Tail(items), DictPut(d, ItemKey(Head(items)), Head(items)))
\* list(d.values())
DictValues(d) == [i \in 1..Len(d) |-> d[i].value]

\* process_author is not running.
PaperIdle ==
    /\ pc = "idle"
    /\ n = 0
    /\ title = <<>> /\ venue = <<>> /\ raw_doi = <<>>
    /\ doi = None /\ pmid = None
    /\ calls = <<>>
    /\ altStatus = NoCall
    /\ altmetric = NoSummary
    /\ altmetric_404_titles = <<>>
    /\ stages = [k \in 1..6 |-> NotCalled]
    /\ oa_flag = "None" /\ oa_status_raw = None /\ oa_type = "None"
    /\ record = EmptyObj
    /\ results = <<>>

\* Lines 211-231: the three fetches have returned and their lists are joined.
GatherResults ==
    /\ fpc = "start"
    /\ \E nih \in ListsUpTo(NihRecords, MaxFund),
          gov \in ListsUpTo(GrantsRecords, MaxFund),
          idrc \in ListsUpTo(IdrcRecords, MaxFund) :
          all_results' = nih \o gov \o idrc
    /\ fpc' = "gathered"
    /\ UNCHANGED unique_list
    /\ UNCHANGED <<grantVars, nihVars>>
    /\ UNCHANGED paperVars

\* Lines 232-233: unique_combined and unique_list.
Combine ==
    /\ fpc = "gathered"
    /\ unique_list' = DictValues(DictOfItems(all_results, <<>>))
    /\ fpc' = "combined"
    /\ UNCHANGED all_results
    /\ UNCHANGED <<grantVars, nihVars>>
    /\ UNCHANGED paperVars

InitCombine ==
    /\ PaperIdle
    /\ fpc = "start"
    /\ all_results = <<>>
    /\ unique_list = <<>>
    /\ GrantsIdle
    /\ NihIdle
NextCombine ==
    \/ GatherResults
    \/ Combine
SpecCombine == InitCombine /\ [][NextCombine]_vars

\* ---------- scraping.py: fetch_grants_concurrent and its fetch_grants_page
\* workers on the shared seen_titles
MaxHits == 2
MaxPageSize == 2

\* str.strip(), for the blank.
RECURSIVE LStrip(_)
LStrip(str) == IF str # <<>> /\ Head(str) = " " THEN LStrip(Tail(str)) ELSE str
RECURSIVE RStrip(_)
RStrip(str) ==
    IF str # <<>> /\ str[Len(str)] = " " THEN RStrip(SubSeq(str, 1, Len(str) - 1)) ELSE str
Strip(str) == RStrip(LStrip(str))

\* The opportunities Grants.gov lists: "AI" and "ai " of one agency, "ML"
\* without an agency.
OppHits ==
    { [title |-> <<"A", "I">>, agencyName |-> "NSF"],
      [title |-> <<"a", "i", " ">>, agencyName |-> "NSF"],
      [title |-> <<"M", "L">>] }
\* JSON null where an object is expected (Python's None).
NullObject == [absent |-> TRUE]
\* The answers to the request for the record count.
GrantsCountResponses ==
    Failures \cup {Http(200, TRUE, EmptyObj), Http(200, TRUE, [data |-> NullObject])}
        \cup {Http(200, TRUE, [data |-> [hitCount |-> h]]) : h \in 0..MaxHits}
\* The answers to the request for a page of ps rows.
GrantsPageResponses(ps) ==
    Failures \cup {Http(200, TRUE, EmptyObj), Http(200, TRUE, [data |-> NullObject]),
                   Http(200, TRUE, [data |-> EmptyObj])}
        \cup {Http(200, TRUE, [data |-> [oppHits |-> hits]]) : hits \in ListsUpTo(OppHits, ps)}

\* math.ceil(a / b)
Ceil(a, b) == (a + b - 1) \div b
\* What an except clause of requests.RequestException does with the failure
\* of a request: "caught", "raised", or "none" when nothing was raised.
\* A connection error and the HTTPError of raise_for_status are caught; a
\* body that is no JSON object raises in response.json() (a RequestException
\* in the newer requests, a ValueError in the older) or in data.get (an
\* AttributeError); "data": null raises AttributeError in .get("oppHits").
PageRequestOutcomes(r) ==
    IF r.kind = "neterr" \/ r.status # 200 THEN {"caught"}
    ELSE IF ~r.json THEN {"caught", "raised"}
    ELSE IF DictGet(r.body, "data", EmptyObj) = NullObject THEN {"raised"}
    ELSE {"none"}
\* data.get("data", {}).get("oppHits", [])
PageResults(r) == DictGet(DictGet(r.body, "data", EmptyObj), "oppHits", <<>>)
\* (title.lower(), source) of an item, title stripped.
SeenKey(item) ==
    <<Lower(Strip(DictGet(item, "title", <<>>))), DictGet(item, "agencyName", "Grants.gov")>>
\* The record appended for an item, as far as the aggregator reads it.
GrantsRecord(item) ==
    [Title  |-> Strip(DictGet(item, "title", <<>>)),
     Source |-> "Grants.gov (" \o DictGet(item, "agencyName", "Grants.gov") \o ")",
     Year   |-> "2025"]
Workers == 1..total_pages

\* fetch_grants_concurrent is called.
InitGrants ==
    /\ PaperIdle
    /\ fpc = "idle" /\ all_results = <<>> /\ unique_list = <<>>
    /\ NihIdle
    /\ gpc = "count"
    /\ page_size \in 1..MaxPageSize
    /\ total_pages = 0
    /\ seen_titles = {}
    /\ wpc = <<>> /\ witems = <<>> /\ wrecords = <<>>
    /\ grants_results = <<>>

\* Lines 133-149: the record count is asked for; on any exception the empty
\* list is returned, else one fetch_grants_page per page is submitted.
GrantsCount ==
    /\ gpc = "count"
    /\ \E r \in GrantsCountResponses :
          IF r.kind = "neterr" \/ r.status # 200 \/ ~r.json
             \/ DictGet(r.body, "data", EmptyObj) = NullObject
          THEN /\ gpc' = "returned"
               /\ UNCHANGED <<total_pages, wpc, witems, wrecords>>
          ELSE LET total_records == DictGet(DictGet(r.body, "data", EmptyObj), "hitCount", 0)
                   pages == Ceil(total_records, page_size)
               IN  /\ total_pages' = pages
                   /\ wpc' = [w \in 1..pages |-> "request"]
                   /\ witems' = [w \in 1..pages |-> <<>>]
                   /\ wrecords' = [w \in 1..pages |-> <<>>]
                   /\ gpc' = "workers"
    /\ UNCHANGED <<page_size, seen_titles, grants_results>>
    /\ UNCHANGED <<fpc, all_results, unique_list, nihVars>>
    /\ UNCHANGED paperVars

\* Lines 86-93 and 118-120 of fetch_grants_page: the request and its body.
WorkerRequest(w) ==
    /\ wpc[w] = "request"
    /\ \E r \in GrantsPageResponses(page_size) :
       \E outcome \in PageRequestOutcomes(r) :
          CASE outcome = "caught" ->
                  /\ wpc' = [wpc EXCEPT ![w] = "done"]
                  /\ UNCHANGED witems
            [] outcome = "raised" ->
                  /\ wpc' = [wpc EXCEPT ![w] = "raised"]
                  /\ UNCHANGED witems
            [] outcome = "none" ->
                  /\ witems' = [witems EXCEPT ![w] = PageResults(r)]
                  /\ wpc' = [wpc EXCEPT ![w] = IF PageResults(r) = <<>> THEN "done" ELSE "loop"]
    /\ UNCHANGED <<gpc, page_size, total_pages, seen_titles, wrecords, grants_results>>
    /\ UNCHANGED <<fpc, all_results, unique_list, nihVars>>
    /\ UNCHANGED paperVars

\* The worker is past its last item: it returns its records.
AfterItem(w, rest) == IF rest = <<>> THEN "done" ELSE "loop"

\* Lines 94-102: the key of the next item is looked up in seen_titles.
WorkerCheck(w) ==
    /\ wpc[w] = "loop"
    /\ IF SeenKey(Head(witems[w])) \notin seen_titles
       THEN /\ wpc' = [wpc EXCEPT ![w] = "checked"]
            /\ UNCHANGED witems
       ELSE /\ witems' = [witems EXCEPT ![w] = Tail(witems[w])]
            /\ wpc' = [wpc EXCEPT ![w] = AfterItem(w, Tail(witems[w]))]
    /\ UNCHANGED <<gpc, page_size, total_pages, seen_titles, wrecords, grants_results>>
    /\ UNCHANGED <<fpc, all_results, unique_list, nihVars>>
    /\ UNCHANGED paperVars

\* Lines 103-113: the key is added and the record appended.
WorkerInsert(w) ==
    /\ wpc[w] = "checked"
    /\ seen_titles' = seen_titles \cup {SeenKey(Head(witems[w]))}
    /\ wrecords' = [wrecords EXCEPT ![w] = Append(@, GrantsRecord(Head(witems[w])))]
    /\ witems' = [witems EXCEPT ![w] = Tail(witems[w])]
    /\ wpc' = [wpc EXCEPT ![w] = AfterItem(w, Tail(witems[w]))]
    /\ UNCHANGED <<gpc, page_size, total_pages, grants_results>>
    /\ UNCHANGED <<fpc, all_results, unique_list, nihVars>>
    /\ UNCHANGED paperVars

\* Lines 150-151: a completed future is taken and its result appended; the
\* exception of a worker is raised again by future.result().
Collect(w) ==
    /\ gpc = "workers"
    /\ wpc[w] \in {"done", "raised"}
    /\ IF wpc[w] = "done"
       THEN /\ grants_results' = grants_results \o wrecords[w]
            /\ wpc' = [wpc EXCEPT ![w] = "collected"]
            /\ gpc' = gpc
       ELSE /\ gpc' = "raised"
            /\ UNCHANGED <<grants_results, wpc>>
    /\ UNCHANGED <<page_size, total_pages, seen_titles, witems, wrecords>>
    /\ UNCHANGED <<fpc, all_results, unique_list, nihVars>>
    /\ UNCHANGED paperVars

\* Line 153: every future is taken; all_results is returned.
GrantsReturn ==
    /\ gpc = "workers"
    /\ \A w \in Workers : wpc[w] = "collected"
    /\ gpc' = "returned"
    /\ UNCHANGED <<page_size, total_pages, seen_titles, wpc, witems, wrecords,
                   grants_results>>
    /\ UNCHANGED <<fpc, all_results, unique_list, nihVars>>
    /\ UNCHANGED paperVars

NextGrants ==
    \/ GrantsCount
    \/ \E w \in Workers : WorkerRequest(w)
    \/ \E w \in Workers : WorkerCheck(w)
    \/ \E w \in Workers : WorkerInsert(w)
    \/ \E w \in Workers : Collect(w)
    \/ GrantsReturn
SpecGrants == InitGrants /\ [][NextGrants]_vars

\* ---------- scraping.py: fetch_nih_by_year
MaxNihProjects == 3
MaxBatch == 2

\* The projects of the NIH search, with and without a title.
NihItems ==
    { [project_title |-> <<"A", "I">>, project_num |-> "R01"],
      [project_title |-> <<"M", "L">>, project_num |-> "R02"],
      [project_num |-> "R03"] }

\* The record appended for a project, as far as the aggregator reads it.
NihRecord(item, y) ==
    [Title  |-> DictGet(item, "project_title", <<>>),
     Source |-> "NIH RePORTER",
     Year   |-> y]
\* The records of a list of projects, in order.
RECURSIVE NihRecordsOf(_, _)
NihRecordsOf(items, y) ==
    IF items = <<>> THEN <<>>
    ELSE <<NihRecord(Head(items), y)>> \o NihRecordsOf(Tail(items), y)
\* What the API lists for "offset": o, "limit": b.
NihPage(data, o, b) ==
    IF o >= Len(data) THEN <<>>
    ELSE SubSeq(data, o + 1, IF o + b < Len(data) THEN o + b ELSE Len(data))
\* The answers to the request at offset o: a failure, a body without
\* "results", or the page of the projects at that offset.
NihResponses(data, o, b) ==
    Failures \cup {Http(200, TRUE, EmptyObj), Http(200, TRUE, [results |-> NihPage(data, o, b)])}
\* response.json().get("results", []) when nothing raises, else <<>>: the
\* loop breaks on both.
NihResults(r) ==
    IF r.kind = "neterr" \/ r.status # 200 \/ ~r.json THEN <<>>
    ELSE DictGet(r.body, "results", <<>>)
\* An offset that passes over a project.
NextOffsetSkipping(o, b) == o + b + 1
\* offset += batch_size
NextOffset(o, b) == o + b

\* fetch_nih_by_year(year, batch_size) is called.
InitNih ==
    /\ PaperIdle
    /\ fpc = "idle" /\ all_results = <<>> /\ unique_list = <<>>
    /\ GrantsIdle
    /\ nih_pc = "loop"
    /\ year \in {"2015", "2016"}
    /\ batch_size \in 1..MaxBatch
    /\ offset = 0
    /\ records = <<>>
    /\ nih_requests = <<>> /\ nih_pages = <<>>
    /\ nih_data \in ListsUpTo(NihItems, MaxNihProjects)

\* Lines 34-69: one turn of the loop. The request is made at the current
\* offset; a failure or an empty page breaks the loop, a page of projects
\* is appended and the offset advanced.
NihRequest ==
    /\ nih_pc = "loop"
    /\ nih_requests' = Append(nih_requests, offset)
    /\ \E r \in NihResponses(nih_data, offset, batch_size) :
          IF NihResults(r) = <<>>
          THEN /\ nih_pc' = "broke"
               /\ UNCHANGED <<offset, records, nih_pages>>
          ELSE /\ records' = records \o NihRecordsOf(NihResults(r), year)
               /\ offset' = NextOffset(offset, batch_size)
               /\ nih_pages' = Append(nih_pages, NihResults(r))
               /\ nih_pc' = "loop"
    /\ UNCHANGED <<year, batch_size, nih_data>>
    /\ UNCHANGED <<fpc, all_results, unique_list, grantVars>>
    /\ UNCHANGED paperVars

\* Lines 71-72: records is returned.
NihReturn ==
    /\ nih_pc = "broke"
    /\ nih_pc' = "returned"
    /\ UNCHANGED <<year, batch_size, offset, records, nih_requests, nih_pages, nih_data>>
    /\ UNCHANGED <<fpc, all_results, unique_list, grantVars>>
    /\ UNCHANGED paperVars

NextNih ==
    \/ NihRequest
    \/ NihReturn
SpecNih == InitNih /\ [][NextNih]_vars
\* The interpreter keeps running the function: a turn that can be taken is taken.
FairSpecNih == SpecNih /\ WF_vars(NextNih)

\* ====================================================================
\* The claims
\* ====================================================================
\* get_combined_open_access_status has returned.
Returned == pc \in {"emit", "appended"}
\* Stage k was consulted and gave no verdict: (None, None), and (False, None)
\* of the preprint-venue stage.
StageAbstained(k) ==
    /\ stages[k].called
    /\ IF k = 5 THEN stages[k].out.oa = "False" ELSE stages[k].out.oa = "None"
StageDecided(k) == stages[k].called /\ ~StageAbstained(k)
\* The key of the body that stage k reads first ("" for the stages that make
\* no call).
ExpectedKey == <<"total", "", "is_oa", "message", "", "data">>
\* The call of stage k failed: the request raised, the status is not 200, the
\* body is no JSON object, or it lacks the expected key.
StageFailed(k) ==
    /\ stages[k].called
    /\ stages[k].resp # NoCall
    /\ \/ stages[k].resp.kind = "neterr"
       \/ stages[k].resp.status # 200
       \/ ~stages[k].resp.json
       \/ ExpectedKey[k] \notin DOMAIN stages[k].resp.body

\* C1: when the cascade has returned, the stages were consulted in order up
\* to the first one that did not abstain, the result is that stage's verdict
\* with its provenance, no later stage was consulted, and the result is
\* (False, "unknown") exactly when all six stages abstained.
C1_Precedence ==
    Returned =>
        /\ \A k \in 1..6 : StageDecided(k) =>
              /\ \A j \in 1..(k - 1) : StageAbstained(j)
              /\ \A j \in (k + 1)..6 : ~stages[j].called
              /\ oa_flag = stages[k].out.oa
              /\ oa_status_raw = Provenance(k, stages[k].out.source)
        /\ (\A k \in 1..6 : ~StageDecided(k)) => (\A k \in 1..6 : StageAbstained(k))
        /\ (oa_flag = "False" /\ oa_status_raw = S_unknown)
              <=> (\A k \in 1..6 : StageAbstained(k))
\* The link finder decides after five abstentions.
C1_Witness ==
    /\ pc = "emit"
    /\ \A k \in 1..5 : StageAbstained(k)
    /\ StageDecided(6)
    /\ oa_status_raw = S_oa_button_colon \o OaLink

\* C2: a stage whose call failed abstains, so that the cascade goes on to the
\* next stage and the failure gives no verdict of that stage.
C2_FailureAbstains == \A k \in 1..6 : StageFailed(k) => StageAbstained(k)

\* C3: when the directory answered 200 with a body that holds "total", the
\* cascade has returned (True, "doaj") and consulted no other stage, whatever
\* the DOI and the number of hits.
C3_DirectoryShortCircuits ==
    (stages[1].called /\ ~StageFailed(1)) =>
        /\ Returned
        /\ oa_flag = "True"
        /\ oa_status_raw = S_doaj
        /\ \A k \in 2..6 : ~stages[k].called
\* The directory answered with zero hits for a work that has a DOI.
C3_Witness ==
    /\ pc = "emit"
    /\ stages[1].called
    /\ stages[1].resp = Http(200, TRUE, [total |-> 0])
    /\ Truthy(doi)
    /\ oa_status_raw = S_doaj

\* The attention fetcher or the cascade has been called for the current work.
Enriching ==
    pc \in {"altmetric_pmid", "core", "unpaywall", "crossref_license", "preprint_venue",
            "oa_button", "emit", "appended"}
\* The resolver has finished for the current work.
ResolverDone == pc \in {"resolved", "skipped", "altmetric"} \/ Enriching

\* C4: every output record has a DOI or a PMID; a work whose resolution ended
\* with neither goes from the identifier check to the next work with no call
\* of the attention fetcher or of the cascade and with no record appended.
C4_RecordsHaveIdentifier ==
    /\ \A i \in 1..Len(results) : results[i].DOI # S_NA \/ Truthy(results[i].PMID)
    /\ (pc \in {"altmetric", "doaj"} \/ Enriching) => (Truthy(doi) \/ Truthy(pmid))
    /\ pc = "skipped" =>
          /\ ~Truthy(doi) /\ ~Truthy(pmid)
          /\ \A i \in 1..Len(calls) : calls[i] \in {"openalex", "crossref", "pubmed"}
          /\ record = EmptyObj
\* The second work of the list is skipped after the first gave a record.
C4_Witness ==
    /\ pc = "skipped"
    /\ n = 2
    /\ Len(results) = 1
    /\ calls = <<"openalex", "crossref", "pubmed">>

\* The raw DOI field of the current work is in resolver-URL form.
RawIsResolverUrl == n > 0 /\ pc # "done" /\ StartsWith(raw_doi, DOI_URL_PREFIX)
\* C5: for a work whose raw DOI field starts with "https://doi.org/", the
\* cleaned DOI is exactly the text after that prefix, no OpenAlex or Crossref
\* lookup is made, and the PubMed lookup is.
C5_ResolverUrlStripped ==
    RawIsResolverUrl =>
        /\ doi = SubSeq(raw_doi, Len(DOI_URL_PREFIX) + 1, Len(raw_doi))
        /\ pc \notin {"openalex", "crossref"}
        /\ \A i \in 1..Len(calls) : calls[i] \notin {"openalex", "crossref"}
        /\ ResolverDone => \E i \in 1..Len(calls) : calls[i] = "pubmed"

\* C6: the DOI handed to the attention fetcher and to the cascade holds no
\* address of the DOI resolver ("doi.org/").
C6_HandedDoiIsBare ==
    (pc \in {"altmetric", "doaj"} \/ Enriching) =>
        (doi = None \/ ~Contains(doi, DOI_ORG \o <<"/">>))


Is404(st) == st.kind = "http" /\ st.status = 404
\* The DOI query of get_altmetric_summary is about to be made.
AtDoiQuery == pc = "altmetric"
\* What C7 says of the order of the queries, of the retry and of every
\* failure other than not-found; Logged is when the title is appended.
AltmetricContract(Logged) ==
    /\ AtDoiQuery =>
          /\ \A i \in 1..Len(calls) : calls[i] # "altmetric_pmid"
          /\ calls' = Append(calls, "altmetric_doi")
          /\ (pc' = "altmetric_pmid") <=> (Is404(altStatus') /\ Truthy(pmid))
          /\ altmetric_404_titles' =
                IF Logged THEN Append(altmetric_404_titles, title)
                ELSE altmetric_404_titles
          /\ (~Is404(altStatus') /\ ~(Ok200(altStatus') /\ altStatus'.json)) =>
                (altmetric' = NoSummary /\ pc' = "doaj")
    /\ pc = "altmetric_pmid" =>
          /\ calls = <<"altmetric_doi">>
          /\ Is404(altStatus) /\ Truthy(pmid)
          /\ altmetric_404_titles' = altmetric_404_titles

\* C7 as stated: the title is appended to the miss log exactly when the DOI
\* query returned not-found.
C7_LoggedIffNotFound == [][AltmetricContract(Is404(altStatus'))]_vars
\* C7 as amended: the DOI query is made first; the PMID query is made only
\* after a not-found DOI query and only with a PMID; the title is appended to
\* the miss log exactly when the DOI query returned not-found and the title
\* is not empty; any other failure gives the absent summary with no retry.
C7_LoggedIffNotFoundAndTitled ==
    [][AltmetricContract(Is404(altStatus') /\ Truthy(title))]_vars
\* A not-found DOI query has logged the title and the PMID query is next.
C7_Witness ==
    /\ pc = "altmetric_pmid"
    /\ Is404(altStatus)
    /\ altmetric_404_titles = <<TitleA, TitleA>>

\* The last position of all_results that holds the key of item.
LastWithKey(item) ==
    CHOOSE i \in 1..Len(all_results) :
        /\ ItemKey(all_results[i]) = ItemKey(item)
        /\ \A j \in (i + 1)..Len(all_results) : ItemKey(all_results[j]) # ItemKey(item)
\* C8: in the combined output no two entries share the key (lower-cased
\* title, source), every key of the concatenated list has its entry, and the
\* entry of a key is the last record of the list with that key.
C8_LastWriteWins ==
    fpc = "combined" =>
        /\ \A i, j \in 1..Len(unique_list) :
              i # j => ItemKey(unique_list[i]) # ItemKey(unique_list[j])
        /\ \A i \in 1..Len(all_results) :
              \E j \in 1..Len(unique_list) :
                  unique_list[j] = all_results[LastWithKey(all_results[i])]
        /\ \A j \in 1..Len(unique_list) :
              \E i \in 1..Len(all_results) :
                  unique_list[j] = all_results[LastWithKey(all_results[i])]
\* Two records that differ and share a key have collapsed to the later one,
\* beside a record of another key.
C8_Witness ==
    /\ fpc = "combined"
    /\ Len(all_results) = 3
    /\ Len(unique_list) = 2
    /\ ItemKey(all_results[1]) = ItemKey(all_results[2])
    /\ all_results[1].Title # all_results[2].Title
    /\ unique_list[1] = all_results[2]

\* The venue names a preprint server: one of the seven substrings occurs in
\* its lower-cased text.
VenueIsPreprintServer ==
    /\ Truthy(venue)
    /\ \E src \in {S_arxiv, S_biorxiv, S_medrxiv, S_ssrn, S_osf, S_researchsquare,
                   S_preprints} : Contains(Lower(venue), src)
\* C9: the publication type of the record is "Preprint" without a DOI and
\* with a preprint venue, else "Open Access" with a DOI and an open verdict,
\* else "Published" with a DOI, else "Unknown".
C9_PublicationType ==
    pc = "appended" =>
        record.PublicationType =
            IF ~Truthy(doi) /\ VenueIsPreprintServer THEN "Preprint"
            ELSE IF Truthy(doi) /\ oa_flag = "True" THEN "Open Access"
            ELSE IF Truthy(doi) THEN "Published"
            ELSE "Unknown"
\* A work with a DOI and a closed verdict is "Published".
C9_Witness ==
    /\ pc = "appended"
    /\ doi = DoiBare
    /\ oa_flag = "False"
    /\ record.PublicationType = "Published"

\* The label of a registry tier.
TierLabel(tier) ==
    CASE tier = S_closed -> "Closed"
      [] tier = S_gold -> "Gold OA"
      [] tier = S_green -> "Green OA"
      [] tier = S_hybrid -> "Hybrid OA"
      [] tier = S_bronze -> "Bronze OA"
      [] OTHER -> "Unknown OA"
\* C10: the label process_author derives is "Closed" for a closed verdict,
\* the label of the registry tier when the primary registry gave the verdict
\* ("Gold OA" for gold), and "Unknown OA" for an open verdict without a tier.
C10_TierLabel ==
    Returned =>
        oa_type = IF oa_flag # "True" THEN "Closed"
                  ELSE IF StageDecided(3) THEN TierLabel(stages[3].out.source)
                  ELSE "Unknown OA"

\* One of the five media counters of the summary is positive.
MediaCounterPositive ==
    \/ altmetric.counts.News > 0
    \/ altmetric.counts.Blogs > 0
    \/ altmetric.counts.PolicyDocs > 0
    \/ altmetric.counts.Facebook > 0
    \/ altmetric.counts.Wikipedia > 0
\* C11: the media flag of a record is true exactly when one of the News,
\* Blogs, Policy Docs, Facebook and Wikipedia counters is positive, whatever
\* the Twitter and Reddit counters are, and false without a summary.
C11_MediaMentioned ==
    pc = "appended" =>
        (record.MediaMentioned <=> (altmetric # NoSummary /\ MediaCounterPositive))
\* Five tweets and no media mention: the flag is false.
C11_Witness ==
    /\ pc = "appended"
    /\ altmetric # NoSummary
    /\ altmetric.counts.Twitter = 5
    /\ ~MediaCounterPositive
    /\ record.MediaMentioned = FALSE

\* C12: no failure of a request propagates out of fetch_grants_page or out
\* of fetch_grants_concurrent; it leaves an empty result.
C12_NoFailurePropagates ==
    /\ gpc # "raised"
    /\ \A w \in Workers : wpc[w] # "raised"

\* C13: the list returned by fetch_grants_concurrent holds at most one
\* record for a key (lower-cased title, agency).
C13_OneRecordPerKey ==
    gpc = "returned" =>
        \A i, j \in 1..Len(grants_results) :
            i # j => ItemKey(grants_results[i]) # ItemKey(grants_results[j])

\* C14: for a work without a DOI the repository-prefix, primary-registry,
\* licence and link-finder stages abstain whenever they are consulted, so
\* that the cascade returns the directory verdict, the preprint-venue
\* verdict or (False, "unknown").
C14_AbsentDoiAbstains ==
    doi = None =>
        /\ \A k \in {2, 3, 4, 6} : stages[k].called => StageAbstained(k)
        /\ Returned =>
              \/ StageDecided(1)
              \/ StageDecided(5)
              \/ (oa_flag = "False" /\ oa_status_raw = S_unknown)

\* The result lists served so far, joined in order.
RECURSIVE Joined(_)
Joined(pages) == IF pages = <<>> THEN <<>> ELSE Head(pages) \o Joined(Tail(pages))
\* What C15 says of every state: the offsets requested are 0, batch_size,
\* 2*batch_size, ... in order; every request before the last gave a page of
\* projects and the loop ended with the first that did not; records holds
\* the records of the pages served, each page being the projects at its
\* offset.
NihPaging ==
    /\ \A i \in 1..Len(nih_requests) : nih_requests[i] = (i - 1) * batch_size
    /\ \A i \in 1..Len(nih_pages) :
          nih_pages[i] # <<>> /\ nih_pages[i] = NihPage(nih_data, nih_requests[i], batch_size)
    /\ nih_pc = "loop" => Len(nih_requests) = Len(nih_pages)
    /\ nih_pc \in {"broke", "returned"} => Len(nih_requests) = Len(nih_pages) + 1
    /\ records = NihRecordsOf(Joined(nih_pages), year)
\* C15: fetch_nih_by_year requests the offsets 0, batch_size, ... in order,
\* stops at the first empty page or failed request, returns the records of
\* the pages fetched before it, and returns in the end.
C15_PagesInOrderAndReturns == []NihPaging /\ <>(nih_pc = "returned")
\* Three projects fetched in two pages of two and one, and the empty third
\* page ended the loop.
C15_Witness ==
    /\ nih_pc = "returned"
    /\ nih_requests = <<0, 2, 4>>
    /\ Len(records) = 3
    /\ Len(nih_data) = 3


=============================================================================
